---- MODULE Spec2Model ----
(***************************************************************************)
(* Endfield auto check-in: the SKPort API client (credential bootstrap,    *)
(* signed calls, retrying transport) and the check-in service that drives  *)
(* it over the configured accounts with bounded concurrency.               *)
(*                                                                         *)
(* Execution model: node's event loop.  A macrotask (a network reply, a    *)
(* timer) runs to its first await; the continuations it makes runnable     *)
(* (microtasks) run before any other macrotask.  Each action below is one  *)
(* such uninterrupted piece of code.                                       *)
(***************************************************************************)
EXTENDS Integers, Sequences, FiniteSets, TLC

(***************************************************************************)
(* Program constants                                                       *)
(***************************************************************************)
MAX_RETRIES == 3

\* milliseconds
INITIAL_RETRY_DELAY == 1000

MAX_RETRY_DELAY == 10000

CONCURRENT_LIMIT == 3

(***************************************************************************)
(* Bounds of the model                                                     *)
(***************************************************************************)
\* the longest account list the configuration holds
NumAccounts == 4

\* executeAll runs per process (the start-up run, then cron runs)
MaxRuns == 2

\* the longest account list for which further runs (cron) are explored
MaxRerunLen == 2

\* the calls made by a caller that uses the API client on its own
MaxCalls == 3

\* the backoff is computed for the attempts 0..MaxAttempt
MaxAttempt == 5

\* Math.random() yields k / RandDen, for k in 0..RandDen - 1
RandDen == 16

\* the seconds that pass while the API client is explored
MaxClock == 2

(***************************************************************************)
(* Values                                                                  *)
(***************************************************************************)
\* JavaScript's undefined, where a string is expected
Undefined == "<undefined>"

\* JavaScript's undefined / no value, where an object is expected
Nil == [nil |-> TRUE]

\* a JSON body that is the literal null
NullBody == [null |-> TRUE]

RoleNames == <<"uid1", "uid2", "uid3", "uid4", "uid5", "uid6">>

TokenNames == <<"tok1", "tok2", "tok3", "tok4", "tok5", "tok6">>

Last(s) == s[Len(s)]

\* reading a property of an object: undefined when the object has none
Get(obj, f) == IF f \in DOMAIN obj THEN obj[f] ELSE Undefined

(***************************************************************************)
(* Configuration: the ACCOUNT_N_* environment variables, grouped by N.     *)
(* An environment with n accounts using m distinct game roles (accounts    *)
(* k and k+m share a role).                                                *)
(***************************************************************************)
EnvGroups(n, m) ==
    [k \in 1..n |-> [cred |-> TokenNames[k],
                     sk_game_role |-> RoleNames[((k - 1) % m) + 1]]]

\* loadAccounts: every group must have both fields, or it throws; the account
\* objects it builds are {cred, sk_game_role}.
loadAccountsThrows(groups) ==
    \E k \in DOMAIN groups :
        Get(groups[k], "cred") = Undefined
        \/ Get(groups[k], "sk_game_role") = Undefined

loadAccounts(groups) ==
    [k \in DOMAIN groups |->
        [cred |-> groups[k].cred, sk_game_role |-> groups[k].sk_game_role]]

\* loadConfig throws when loadAccounts does or when no account is configured
loadConfigThrows(groups) ==
    loadAccountsThrows(groups) \/ Len(loadAccounts(groups)) = 0

(***************************************************************************)
(* Errors and API responses                                                *)
(***************************************************************************)
\* an AxiosError: response is Nil when none was received
AxiosError(response, message) ==
    [axios |-> TRUE, response |-> response, message |-> message]

\* any other Error
PlainError(message) == [axios |-> FALSE, response |-> Nil, message |-> message]

ApiResponse(code, message, data) ==
    [code |-> code, message |-> message, data |-> data]

\* axios' default validateStatus
validateStatus(status) == status >= 200 /\ status < 300

\* handleError with the missing status defaulted to 0 rather than -1
handleErrorZero(error) ==
    IF error.axios
    THEN ApiResponse(
           IF error.response = Nil THEN 0 ELSE error.response.status,
           IF error.response # Nil /\ error.response.data # Nil
              /\ error.response.data # NullBody
              /\ Get(error.response.data, "message") # Undefined
           THEN error.response.data.message
           ELSE error.message,
           Nil)
    ELSE ApiResponse(0, error.message, Nil)

\* handleError: the ApiResponse an error is normalised into
handleError(error) ==
    IF error.axios
    THEN ApiResponse(
           IF error.response = Nil THEN -1 ELSE error.response.status,
           IF error.response # Nil /\ error.response.data # Nil
              /\ error.response.data # NullBody
              /\ Get(error.response.data, "message") # Undefined
           THEN error.response.data.message
           ELSE error.message,
           Nil)
    ELSE ApiResponse(-1, error.message, Nil)

\* the classification without the test of the response: every transport
\* error is retried
isRetryableAnyAxios(error) == error.axios

\* the classification without the 429 case
isRetryableNo429(error) ==
    /\ error.axios
    /\ \/ error.response = Nil
       \/ error.response.status >= 500

\* withRetry's classification of a failed attempt
isRetryable(error) ==
    /\ error.axios
    /\ \/ error.response = Nil
       \/ error.response.status >= 500
       \/ error.response.status = 429

\* the catch block without the test of the last attempt
rethrowsNonRetryableOnly(error, attempt) == ~isRetryable(error)

\* the catch block giving up one attempt early
rethrowsEarly(error, attempt) ==
    ~isRetryable(error) \/ attempt = MAX_RETRIES - 2

\* withRetry's catch block: rethrow (TRUE) or back off and try again
rethrows(error, attempt) ==
    ~isRetryable(error) \/ attempt = MAX_RETRIES - 1

(***************************************************************************)
(* The remote side: what each request can be answered with.  A wire is a   *)
(* record of the replies the model draws from, per kind of request.        *)
(***************************************************************************)
\* fetch() rejected, the reply was not ok (getBasicInfo) or not JSON
FetchThrows == [kind |-> "throw"]

BasicInfoResponse(status) == [kind |-> "json", status |-> status]

\* code: the one-time code, or Undefined when data.code is missing
GrantCodeResponse(status, code) ==
    [kind |-> "json", status |-> status, code |-> code]

\* cred, token: whether data.cred / data.token are present
GenerateCredResponse(code, cred, token) ==
    [kind |-> "json", code |-> code, cred |-> cred, token |-> token]

\* no HTTP response at all (network error, timeout)
NoResponse == [kind |-> "none"]

\* an HTTP response with its parsed body (Nil: no usable body)
HttpResponse(status, data) == [kind |-> "resp", status |-> status, data |-> data]

StatusMessage(status) ==
    CASE status = 400 -> "Request failed with status code 400"
      [] status = 401 -> "Request failed with status code 401"
      [] status = 404 -> "Request failed with status code 404"
      [] status = 429 -> "Request failed with status code 429"
      [] status = 500 -> "Request failed with status code 500"
      [] status = 503 -> "Request failed with status code 503"
      [] OTHER -> "Request failed"

Gold == [name |-> "GOLD", count |-> 100, icon |-> "gold.png"]

Exp == [name |-> "EXP", count |-> 5, icon |-> "exp.png"]

\* the replies the orchestration is explored with: a server that answers
\* every kind of request both well and badly, and fails transiently on POST
CoreWire ==
    [basic |-> {FetchThrows, BasicInfoResponse(0)},
     grant |-> {GrantCodeResponse(0, "code")},
     gen   |-> {GenerateCredResponse(0, TRUE, TRUE)},
     check |-> {HttpResponse(200, ApiResponse(0, Undefined, [hasToday |-> TRUE])),
                HttpResponse(200, ApiResponse(0, Undefined, [hasToday |-> FALSE])),
                HttpResponse(200, NullBody)},
     claim |-> {HttpResponse(503, Nil),
                HttpResponse(200, ApiResponse(0, Undefined,
                                              [resourceInfoMap |-> <<Gold>>]))},
     webhook |-> {TRUE, FALSE}]

\* the replies termination is explored with: a bootstrap and a check that
\* succeed, a claim that gets no response (a timeout) or succeeds, a webhook
\* that succeeds or fails
LiveWire ==
    [basic |-> {BasicInfoResponse(0)},
     grant |-> {GrantCodeResponse(0, "code")},
     gen   |-> {GenerateCredResponse(0, TRUE, TRUE)},
     check |-> {HttpResponse(200, ApiResponse(0, Undefined, [hasToday |-> FALSE]))},
     claim |-> {NoResponse,
                HttpResponse(200, ApiResponse(0, Undefined,
                                              [resourceInfoMap |-> <<Gold>>]))},
     webhook |-> {TRUE, FALSE}]

\* failed replies: no response at all, and error statuses with and without a
\* message in the body
ErrorReplies ==
    {NoResponse, HttpResponse(400, [message |-> "denied"]), HttpResponse(404, Nil),
     HttpResponse(429, Nil), HttpResponse(500, Nil),
     HttpResponse(503, [message |-> "busy"])}

\* the replies the API client is explored with
FullWire ==
    [basic |-> {FetchThrows, BasicInfoResponse(0), BasicInfoResponse(1)},
     grant |-> {FetchThrows, GrantCodeResponse(0, "code"),
                GrantCodeResponse(0, Undefined), GrantCodeResponse(1, Undefined)},
     gen   |-> {FetchThrows} \cup
               {GenerateCredResponse(c, cr, tk) :
                    c \in {0, 10000}, cr \in BOOLEAN, tk \in BOOLEAN},
     check |-> ErrorReplies
               \cup {HttpResponse(200, b) :
                       b \in {ApiResponse(0, Undefined, [hasToday |-> TRUE]),
                              ApiResponse(0, Undefined, [hasToday |-> FALSE]),
                              ApiResponse(0, Undefined, Nil),
                              ApiResponse(10001, "Please log in", Nil),
                              ApiResponse(10002, Undefined, Nil),
                              NullBody}},
     claim |-> ErrorReplies
               \cup {HttpResponse(200, b) :
                       b \in {ApiResponse(0, Undefined,
                                          [resourceInfoMap |-> <<Gold>>]),
                              ApiResponse(0, Undefined,
                                          [resourceInfoMap |-> <<Exp, Gold>>]),
                              ApiResponse(0, Undefined, Nil),
                              ApiResponse(10001, "Please log in", Nil),
                              ApiResponse(10002, Undefined, Nil),
                              NullBody}},
     webhook |-> {TRUE, FALSE}]

(***************************************************************************)
(* State                                                                   *)
(***************************************************************************)
VARIABLES
    accounts,     \* config.accounts, as loadAccounts built it
    credentials,  \* SkportApiClient.credentials: game role -> RuntimeCredentials
    run,          \* number of executeAll calls (of a direct caller: calls) so far
    loopPc,       \* where executeAll / processConcurrently stands
    loopI,        \* processConcurrently's loop index i (1-based)
    executing,    \* processConcurrently's pending set (promises, by index)
    awaited,      \* the promises handed to the Promise.race / Promise.all awaited
    results,      \* processConcurrently's results array
    batch,        \* the list handed to notifier.sendBatchResults
    task,         \* per account index: its pipeline (processor + executeForAccount)
    clock,        \* Date.now(), in seconds
    backoff,      \* a backoff computation of withRetry, taken on its own
    signing,      \* computations of the signature utilities, taken on their own
    notifier      \* DiscordNotifier in this run: the calls of sendBatchResults,
                  \* and whether its catch block logged a failed webhook call

vars == <<accounts, credentials, run, loopPc, loopI, executing, awaited,
          results, batch, task, clock, backoff, signing, notifier>>

\* what the steps of the service and of the API client leave alone
aside == <<clock, backoff, signing>>

\* the notifier before executeAll has called it
Uncalled == [calls |-> 0, failed |-> FALSE]

Roles == {RoleNames[k] : k \in 1..Len(RoleNames)}

Ops == {"check", "claim"}

\* A pipeline that has not started.  pc: where it is suspended; attempt:
\* withRetry's loop variable; oauthSuccess, checkResponse, claimResponse:
\* executeForAccount's locals (kept until the pipeline settles); result: what
\* executeForAccount returned; req: the signed request in flight; log: per
\* call, the replies its attempts received, and the replies to the steps of
\* performOAuthFlow (history); waits: per call, the backoff timers withRetry
\* has started (history); logged: the error message initOAuth's catch block
\* wrote to console.error; token: performOAuthFlow's argument accountToken.
IdleTask ==
    [pc |-> "idle", attempt |-> 0, oauthSuccess |-> "none",
     checkResponse |-> Nil, claimResponse |-> Nil, result |-> Nil,
     req |-> Nil, log |-> [oauth |-> <<>>, check |-> <<>>, claim |-> <<>>],
     waits |-> [check |-> 0, claim |-> 0], logged |-> Undefined,
     token |-> Undefined]

N == Len(accounts)

\* account.account_token, as initOAuth reads it
account_token(i) == Get(accounts[i], "account_token")

\* the pipeline of account i as it starts: executeForAccount calls initOAuth,
\* which calls performOAuthFlow(account.account_token), which sends the
\* basic-info request
startsOAuth(i) == [IdleTask EXCEPT !.pc = "oauth1", !.token = account_token(i)]

CheckInResult(uid, status, rewards, error) ==
    [uid |-> uid, status |-> status, rewards |-> rewards, error |-> error]

\* what stands for a result when executeForAccount threw instead
Thrown == [thrown |-> TRUE]

\* the promise of pipeline p is settled: fulfilled, or rejected
settled(p) == task[p].pc \in {"done", "rejected"}

rejected(p) == task[p].pc = "rejected"

RaceResolved == loopPc = "race" /\ \E p \in awaited : settled(p)

\* the final await settling with the first promise, as Promise.race would
AllResolvedAny == loopPc = "all" /\ \E p \in awaited : settled(p)

AllResolved == loopPc = "all" /\ \A p \in awaited : settled(p)

\* nothing is runnable: the event loop waits for a reply or a timer
Quiescent ==
    /\ loopPc \in {"race", "all", "direct"}
    /\ ~RaceResolved /\ ~AllResolved
    /\ \A k \in 1..N : task[k].pc # "settle"

(***************************************************************************)
(* main / loadConfig: the state after construction                         *)
(***************************************************************************)
InitWith(groups) ==
    /\ accounts = (IF loadConfigThrows(groups) THEN <<>> ELSE loadAccounts(groups))
    /\ credentials = [r \in Roles |-> Nil]
    /\ run = 0
    /\ loopPc = (IF loadConfigThrows(groups) THEN "fatal" ELSE "main")
    /\ loopI = 1
    /\ executing = {}
    /\ awaited = {}
    /\ results = <<>>
    /\ batch = <<>>
    /\ task = [k \in 1..N |-> IdleTask]
    /\ clock = 0
    /\ backoff = Nil
    /\ signing = Nil
    /\ notifier = Uncalled

\* a group that lacks its SK_GAME_ROLE variable
BadGroups == <<[cred |-> TokenNames[1]]>>

\* the number of distinct game roles of the configurations explored
NumRoles == 2

Init ==
    \/ \E n \in 0..NumAccounts : InitWith(EnvGroups(n, NumRoles))
    \/ InitWith(BadGroups)

(***************************************************************************)
(* CheckInService.executeAll / processConcurrently                         *)
(***************************************************************************)
\* executeAll is entered (by main, later by the cron job): processConcurrently
\* allocates results and the pending set.
ExecuteAll ==
    /\ loopPc \in {"main", "finished"}
    /\ run < MaxRuns
    /\ loopPc = "finished" => N <= MaxRerunLen
    /\ run' = run + 1
    /\ loopPc' = "loop"
    /\ loopI' = 1
    /\ executing' = {}
    /\ awaited' = {}
    /\ results' = [k \in 1..N |-> Nil]
    /\ batch' = <<>>
    /\ task' = [k \in 1..N |-> IdleTask]
    /\ notifier' = Uncalled
    /\ UNCHANGED <<aside, accounts, credentials>>

\* the limit check with > for >=
poolFullLate(pending) == Cardinality(pending) > CONCURRENT_LIMIT

\* processConcurrently's limit check after executing.add(promise)
poolFull(pending) == Cardinality(pending) >= CONCURRENT_LIMIT

\* One loop iteration: the pipeline of account i starts and runs to its first
\* await (the basic-info request of performOAuthFlow); the promise joins the
\* pending set; the loop awaits Promise.race when the set is full.
LoopIter ==
    /\ loopPc = "loop"
    /\ loopI <= N
    /\ task' = [task EXCEPT ![loopI] = startsOAuth(loopI)]
    /\ executing' = executing \cup {loopI}
    /\ loopI' = loopI + 1
    /\ IF poolFull(executing')
       THEN loopPc' = "race" /\ awaited' = executing'
       ELSE UNCHANGED <<loopPc, awaited>>
    /\ UNCHANGED <<aside, notifier, accounts, credentials, run, results, batch>>

\* the loop is over: await Promise.all(executing)
LoopExit ==
    /\ loopPc = "loop"
    /\ loopI > N
    /\ loopPc' = "all"
    /\ awaited' = executing
    /\ UNCHANGED <<aside, notifier, accounts, credentials, run, loopI, executing, results, batch,
                   task>>

\* Promise.race(executing) settled: the loop goes on, or (a rejected promise)
\* processConcurrently throws and executeAll with it
RaceWake ==
    /\ RaceResolved
    /\ loopPc' = (IF \E p \in awaited : rejected(p) THEN "failed" ELSE "loop")
    /\ awaited' = {}
    /\ UNCHANGED <<aside, notifier, accounts, credentials, run, loopI, executing, results, batch,
                   task>>

\* results.filter((r) => r !== undefined)
filterDefined(rs) == SelectSeq(rs, LAMBDA r : r # Nil)

\* Promise.all settled: processConcurrently returns the filtered results and
\* executeAll hands them to the notifier, which posts to the webhook unless
\* the list is empty; or (a rejected promise) executeAll throws.
AllWake ==
    /\ AllResolved
    /\ IF \E p \in awaited : rejected(p)
       THEN loopPc' = "failed" /\ UNCHANGED <<batch, notifier>>
       ELSE /\ batch' = filterDefined(results)
            /\ notifier' = [notifier EXCEPT !.calls = @ + 1]
            /\ loopPc' = (IF Len(batch') = 0 THEN "finished" ELSE "notify")
    /\ awaited' = {}
    /\ UNCHANGED <<aside, accounts, credentials, run, loopI, executing, results, task>>

\* sendBatchResults without its catch block: the error of the webhook call
\* escapes, and executeAll throws
webhookSettledUncaught(ok) == IF ok THEN "finished" ELSE "failed"

\* sendBatchResults returns to executeAll, which returns: the try block ended,
\* or the catch block logged the error
webhookSettled(ok) == "finished"

\* the webhook call ends, well (ok) or not: sendBatchResults catches a failure
WebhookReply(ok) ==
    /\ loopPc = "notify"
    /\ loopPc' = webhookSettled(ok)
    /\ notifier' = [notifier EXCEPT !.failed = ~ok]
    /\ UNCHANGED <<aside, accounts, credentials, run, loopI, executing, awaited,
                   results, batch, task>>

(***************************************************************************)
(* SkportApiClient: initOAuth / performOAuthFlow                           *)
(***************************************************************************)
sk_game_role(i) == accounts[i].sk_game_role

\* the RuntimeCredentials performOAuthFlow returns for the flow of account i:
\* what the server issued to that flow in this run (cred, and salt = the
\* issued token, undefined when the reply had none)
RuntimeCredentials(i, rep) ==
    [cred |-> [by |-> i, run |-> run],
     salt |-> IF rep.token THEN [by |-> i, run |-> run] ELSE Nil]

\* step 2 accepted without a one-time code
grantOkNoCode(rep) == rep.kind = "json" /\ rep.status = 0

\* performOAuthFlow's checks of the three replies
basicOk(rep) == rep.kind = "json" /\ rep.status = 0

grantOk(rep) == rep.kind = "json" /\ rep.status = 0 /\ rep.code # Undefined

credOk(rep) == rep.kind = "json" /\ rep.code = 0 /\ rep.cred

\* performOAuthFlow's request of the given step is answered with rep; pc is
\* the request it awaits next
oauthReplied(t, step, rep, pc) ==
    [t EXCEPT !.pc = pc, !.log.oauth = Append(@, [step |-> step, rep |-> rep])]

\* the message of the error performOAuthFlow throws when the given step is
\* answered with rep: fetch's own error, or "OAuth Step N failed: " followed by
\* the reply's msg / message, which the replies explored never carry, hence
\* by its status or code
oauthStepError(step, rep) ==
    IF rep.kind = "throw" THEN "fetch failed"
    ELSE CASE step = 1 -> "OAuth Step 1 failed: status " \o ToString(rep.status)
           [] step = 2 -> "OAuth Step 2 failed: status " \o ToString(rep.status)
           [] OTHER -> "OAuth Step 3 failed: code " \o ToString(rep.code)

\* initOAuth returns true / (its catch) false to executeForAccount
oauthReturns(t, ok) ==
    [t EXCEPT !.pc = "oauthRet", !.oauthSuccess = IF ok THEN "true" ELSE "false"]

\* initOAuth's catch block: the error of the step last answered is written to
\* console.error, and false is returned
oauthFails(t) ==
    LET e == Last(t.log.oauth) IN
    oauthReturns([t EXCEPT !.logged = oauthStepError(e.step, e.rep)], FALSE)

\* initOAuth deleting the cached entry when the flow throws
cacheClearedOnFailure(cache, key, ok, creds) ==
    IF ok THEN [cache EXCEPT ![key] = creds] ELSE [cache EXCEPT ![key] = Nil]

\* initOAuth's effect on the credential cache once step 3 is answered
\* (ok: performOAuthFlow returned creds; otherwise it threw)
cacheAfterOAuth(cache, key, ok, creds) ==
    IF ok THEN [cache EXCEPT ![key] = creds] ELSE cache

(***************************************************************************)
(* SkportApiClient: checkAttendance / claimAttendance over withRetry       *)
(***************************************************************************)
\* pc of a call (op is "check" or "claim"): op itself while the request is in
\* flight, Wait(op) during the backoff, Ret(op) once the call has returned
Wait(op) == IF op = "check" THEN "checkWait" ELSE "claimWait"

Ret(op) == IF op = "check" THEN "checkRet" ELSE "claimRet"

Response(op) == IF op = "check" THEN "checkResponse" ELSE "claimResponse"

\* the value signed by generateSignV1 / generateSignV2, as far as it varies:
\* the version, the key (cred or salt) and the timestamp
Sign(v, key, timestamp) == [v |-> v, key |-> key, timestamp |-> timestamp]

\* buildAccountHeaders without its test of the cache: the headers are built
\* from undefined credentials
buildAccountHeadersUnchecked(cache, role, useV2Sign) ==
    LET c == cache[role]
        timestamp == clock
    IN  IF c = Nil
        THEN [cred |-> Nil, role |-> role, timestamp |-> timestamp,
              sign |-> Sign(1, Nil, timestamp)]
        ELSE IF useV2Sign /\ c.salt = Nil
        THEN [throws |-> PlainError("The key argument must be of type string")]
        ELSE [cred |-> c.cred,
              role |-> role,
              timestamp |-> timestamp,
              sign |-> IF useV2Sign THEN Sign(2, c.salt, timestamp)
                       ELSE Sign(1, c.cred, timestamp)]

\* buildAccountHeaders reading the clock again for the header, a second after
\* it signed
buildAccountHeadersTwoReads(cache, role, useV2Sign) ==
    LET c == cache[role] IN
    IF c = Nil THEN [throws |-> PlainError("No credentials available")]
    ELSE IF useV2Sign /\ c.salt = Nil
    THEN [throws |-> PlainError("The key argument must be of type string")]
    ELSE [cred |-> c.cred,
          role |-> role,
          timestamp |-> clock + 1,
          sign |-> IF useV2Sign THEN Sign(2, c.salt, clock)
                   ELSE Sign(1, c.cred, clock)]

\* buildAccountHeaders: the headers that depend on the cached credentials and
\* on the clock (read once: timestamp), or the error it throws: no credentials
\* are cached for the role, or the V2 signature (an HMAC keyed with the salt)
\* is asked for without a salt
buildAccountHeaders(cache, role, useV2Sign) ==
    LET c == cache[role]
        timestamp == clock
    IN  IF c = Nil THEN [throws |-> PlainError("No credentials available")]
        ELSE IF useV2Sign /\ c.salt = Nil
        THEN [throws |-> PlainError("The key argument must be of type string")]
        ELSE [cred |-> c.cred,
              role |-> role,
              timestamp |-> timestamp,
              sign |-> IF useV2Sign THEN Sign(2, c.salt, timestamp)
                       ELSE Sign(1, c.cred, timestamp)]

\* checkAttendance / claimAttendance returns r
apiReturns(t, op, r) ==
    [t EXCEPT !.pc = Ret(op), ![Response(op)] = r, !.req = Nil]

\* withRetry's catch block, then the catch of checkAttendance / claimAttendance:
\* back off, or rethrow into handleError, whose ApiResponse the call returns
caught(t, op, error) ==
    IF rethrows(error, t.attempt)
    THEN apiReturns(t, op, handleError(error))
    ELSE [t EXCEPT !.pc = Wait(op), !.req = Nil, !.waits[op] = @ + 1]

\* the signing scheme the call site asks for: claimAttendance passes
\* useV2Sign: true, checkAttendance passes no options
useV2Sign(op) == op = "claim"

\* one attempt of withRetry: fn() builds the headers and sends the request
attemptCall(t, cache, role, op) ==
    LET h == buildAccountHeaders(cache, role, useV2Sign(op)) IN
    IF "throws" \in DOMAIN h
    THEN caught(t, op, h.throws)
    ELSE [t EXCEPT !.pc = op, !.req = [op |-> op, headers |-> h]]

\* the call starts: withRetry's first attempt
startCall(t, cache, role, op) ==
    attemptCall([t EXCEPT !.attempt = 0], cache, role, op)

\* the AxiosError axios rejects with
axiosError(rep) ==
    IF rep.kind = "none" THEN AxiosError(Nil, "Network Error")
    ELSE AxiosError([status |-> rep.status, data |-> rep.data],
                    StatusMessage(rep.status))

\* withRetry with a backoff promise that is never resolved: the loop does
\* not go on
nextAttemptNeverResumes(t, cache, role, op) == t

\* withRetry's loop after the backoff: attempt++, then the next attempt while
\* attempt < MAX_RETRIES, else lastError (the error of the last reply) is thrown
nextAttempt(t, cache, role, op) ==
    LET u == [t EXCEPT !.attempt = @ + 1] IN
    IF u.attempt < MAX_RETRIES
    THEN attemptCall(u, cache, role, op)
    ELSE apiReturns(u, op, handleError(axiosError(Last(t.log[op]))))

\* fn's request is answered: fn returns response.data and so does the call,
\* or axios rejects and withRetry's catch block runs
replied(t, op, rep) ==
    IF rep.kind = "resp" /\ validateStatus(rep.status)
    THEN apiReturns(t, op, rep.data)
    ELSE caught(t, op, axiosError(rep))

(***************************************************************************)
(* CheckInService.executeForAccount and the processor callback             *)
(***************************************************************************)
\* the rate-limit test with accounts.length for accounts.length - 1
pacesAll(i) == i - 1 < N

\* the processor's rate-limit test: index < accounts.length - 1
paces(i) == i - 1 < N - 1

\* executeForAccount returns r: the processor starts the rate-limit timer, or
\* (last index) returns r at once
returns(t, i, r) ==
    [t EXCEPT !.pc = IF paces(i) THEN "delay" ELSE "settle", !.result = r]

errorResult(i, message) == CheckInResult(sk_game_role(i), "error", <<>>, message)

\* message ?? fallback
orElse(message, fallback) == IF message = Undefined THEN fallback ELSE message

\* Object.values(resourceInfoMap).map(item => ({name, count, icon}))
rewardsOf(data) ==
    IF data # Nil /\ "resourceInfoMap" \in DOMAIN data
    THEN [k \in 1..Len(data.resourceInfoMap) |->
            [name |-> data.resourceInfoMap[k].name,
             count |-> data.resourceInfoMap[k].count,
             icon |-> data.resourceInfoMap[k].icon]]
    ELSE <<>>

\* executeForAccount without its catch block: the error escapes, the processor
\* and its promise reject
catchesNothing(t, i, message) == [t EXCEPT !.pc = "settle", !.result = Thrown]

\* executeForAccount's catch block: the thrown error becomes an error result
catches(t, i, message) == returns(t, i, errorResult(i, message))

\* executeForAccount going on whenever the cache holds credentials for the role
afterOAuthUsesCache(t, cache, i) ==
    IF t.oauthSuccess # "true" /\ cache[sk_game_role(i)] = Nil
    THEN returns(t, i, errorResult(i, "Failed to initialize OAuth credentials"))
    ELSE startCall(t, cache, sk_game_role(i), "check")

\* executeForAccount reporting the error initOAuth caught
afterOAuthReportsCause(t, cache, i) ==
    IF t.oauthSuccess # "true"
    THEN returns(t, i, errorResult(i, t.logged))
    ELSE startCall(t, cache, sk_game_role(i), "check")

\* executeForAccount ignoring what initOAuth returned
afterOAuthUnchecked(t, cache, i) == startCall(t, cache, sk_game_role(i), "check")

\* after initOAuth returned: the error result, or checkAttendance is called
afterOAuth(t, cache, i) ==
    IF t.oauthSuccess # "true"
    THEN returns(t, i, errorResult(i, "Failed to initialize OAuth credentials"))
    ELSE startCall(t, cache, sk_game_role(i), "check")

\* executeForAccount without the hasToday test
afterCheckAlwaysClaims(t, cache, i) ==
    LET r == t.checkResponse IN
    IF r = NullBody
    THEN catches(t, i, "Cannot read properties of null")
    ELSE IF r.code # 0
    THEN returns(t, i, errorResult(i, orElse(r.message,
                                             "Failed to check attendance")))
    ELSE startCall(t, cache, sk_game_role(i), "claim")

\* after checkAttendance returned: an error or already_claimed result, or
\* claimAttendance is called.  Reading .code of a null body throws.
afterCheck(t, cache, i) ==
    LET r == t.checkResponse IN
    IF r = NullBody
    THEN catches(t, i, "Cannot read properties of null")
    ELSE IF r.code # 0
    THEN returns(t, i, errorResult(i, orElse(r.message,
                                             "Failed to check attendance")))
    ELSE IF r.data # Nil /\ r.data.hasToday
    THEN returns(t, i, CheckInResult(sk_game_role(i), "already_claimed", <<>>,
                                     Undefined))
    ELSE startCall(t, cache, sk_game_role(i), "claim")

\* executeForAccount without the test of the claim response's code
afterClaimIgnoresCode(t, i) ==
    LET r == t.claimResponse IN
    IF r = NullBody
    THEN catches(t, i, "Cannot read properties of null")
    ELSE returns(t, i, CheckInResult(sk_game_role(i), "claimed",
                                     rewardsOf(r.data), Undefined))

\* after claimAttendance returned: an error result or the claimed rewards
afterClaim(t, i) ==
    LET r == t.claimResponse IN
    IF r = NullBody
    THEN catches(t, i, "Cannot read properties of null")
    ELSE IF r.code # 0
    THEN returns(t, i, errorResult(i, orElse(r.message, "Failed to claim reward")))
    ELSE returns(t, i, CheckInResult(sk_game_role(i), "claimed",
                                     rewardsOf(r.data), Undefined))

\* executeForAccount resumes after the call it awaited returned, and runs on
\* until it awaits a request or a timer, or returns
resume(t, cache, i) ==
    LET a == IF t.pc = "oauthRet" THEN afterOAuth(t, cache, i) ELSE t
        b == IF a.pc = "checkRet" THEN afterCheck(a, cache, i) ELSE a
    IN  IF b.pc = "claimRet" THEN afterClaim(b, i) ELSE b

\* a call made on the API client directly returns to its caller
land(t) ==
    IF t.pc \in {"oauthRet", "checkRet", "claimRet"} THEN [t EXCEPT !.pc = "called"]
    ELSE t

\* the code that awaited the call goes on: executeForAccount, or the caller
\* that uses the API client on its own
continues(t, cache, i) ==
    IF loopPc = "direct" THEN land(t) ELSE resume(t, cache, i)

\* step 1 answered: step 2 is requested, or the flow throws
BasicInfoReply(i, rep) ==
    /\ Quiescent
    /\ task[i].pc = "oauth1"
    /\ task' = [task EXCEPT ![i] =
                  continues(IF basicOk(rep) THEN oauthReplied(@, 1, rep, "oauth2")
                         ELSE oauthFails(oauthReplied(@, 1, rep, "oauth1")),
                         credentials, i)]
    /\ UNCHANGED <<aside, notifier, accounts, credentials, run, loopPc, loopI, executing,
                   awaited, results, batch>>

\* step 2 answered: step 3 is requested, or the flow throws
GrantReply(i, rep) ==
    /\ Quiescent
    /\ task[i].pc = "oauth2"
    /\ task' = [task EXCEPT ![i] =
                  continues(IF grantOk(rep) THEN oauthReplied(@, 2, rep, "oauth3")
                         ELSE oauthFails(oauthReplied(@, 2, rep, "oauth2")),
                         credentials, i)]
    /\ UNCHANGED <<aside, notifier, accounts, credentials, run, loopPc, loopI, executing,
                   awaited, results, batch>>

\* step 3 answered: initOAuth stores the credentials under the account's game
\* role and returns true, or the flow throws; executeForAccount goes on
GenerateCredReply(i, rep) ==
    /\ Quiescent
    /\ task[i].pc = "oauth3"
    /\ credentials' = cacheAfterOAuth(credentials, sk_game_role(i), credOk(rep),
                                      RuntimeCredentials(i, rep))
    /\ task' = [task EXCEPT ![i] =
                  continues(IF credOk(rep)
                            THEN oauthReturns(oauthReplied(@, 3, rep, "oauth3"), TRUE)
                            ELSE oauthFails(oauthReplied(@, 3, rep, "oauth3")),
                            credentials', i)]
    /\ UNCHANGED <<aside, notifier, accounts, run, loopPc, loopI, executing, awaited, results,
                   batch>>

\* the signed request in flight is answered
ApiReply(i, op, rep) ==
    /\ Quiescent
    /\ task[i].pc = op
    /\ task' = [task EXCEPT ![i] =
                  continues(replied([@ EXCEPT !.log[op] = Append(@, rep)], op, rep),
                         credentials, i)]
    /\ UNCHANGED <<aside, notifier, accounts, credentials, run, loopPc, loopI, executing,
                   awaited, results, batch>>

\* the backoff timer fires: withRetry's next attempt
RetryTimer(i, op) ==
    /\ Quiescent
    /\ task[i].pc = Wait(op)
    /\ task' = [task EXCEPT ![i] =
                  continues(nextAttempt(@, credentials, sk_game_role(i), op),
                         credentials, i)]
    /\ UNCHANGED <<aside, notifier, accounts, credentials, run, loopPc, loopI, executing,
                   awaited, results, batch>>

\* the rate-limit timer fires: the processor returns the result
DelayTimer(i) ==
    /\ Quiescent
    /\ task[i].pc = "delay"
    /\ task' = [task EXCEPT ![i] = [@ EXCEPT !.pc = "settle"]]
    /\ UNCHANGED <<aside, notifier, accounts, credentials, run, loopPc, loopI, executing,
                   awaited, results, batch>>

\* results.push(r): the results in the order the pipelines complete
assignOnCompletion(rs, i, r) ==
    LET k == CHOOSE k \in 1..Len(rs) : rs[k] = Nil /\ \A j \in 1..(k - 1) : rs[j] # Nil
    IN  [rs EXCEPT ![k] = r]

\* results[i] = r
assignResult(rs, i, r) == [rs EXCEPT ![i] = r]

\* The processor returned: results[i] is assigned and, finally, the promise
\* leaves the pending set.  Had the processor thrown, only the latter.
Settle(i) ==
    /\ task[i].pc = "settle"
    /\ results' = (IF task[i].result = Thrown THEN results
                   ELSE assignResult(results, i, task[i].result))
    /\ executing' = executing \ {i}
    /\ task' = [task EXCEPT ![i] =
                  [IdleTask EXCEPT !.pc = IF task[i].result = Thrown
                                          THEN "rejected" ELSE "done"]]
    /\ UNCHANGED <<aside, notifier, accounts, credentials, run, loopPc, loopI, awaited, batch>>

(***************************************************************************)
(* Specifications                                                          *)
(***************************************************************************)
\* the steps of the API client: replies and backoff timers
Replies(W) ==
    \/ \E i \in 1..N, rep \in W.basic : BasicInfoReply(i, rep)
    \/ \E i \in 1..N, rep \in W.grant : GrantReply(i, rep)
    \/ \E i \in 1..N, rep \in W.gen : GenerateCredReply(i, rep)
    \/ \E i \in 1..N, rep \in W.check : ApiReply(i, "check", rep)
    \/ \E i \in 1..N, rep \in W.claim : ApiReply(i, "claim", rep)
    \/ \E i \in 1..N, op \in Ops : RetryTimer(i, op)

\* the steps of the pipelines: the API client's, and the processors' returns
Client(W) ==
    \/ Replies(W)
    \/ \E i \in 1..N : Settle(i)

\* every step the program can take, the replies drawn from the wire W
Step(W) ==
    \/ ExecuteAll
    \/ LoopIter
    \/ LoopExit
    \/ RaceWake
    \/ AllWake
    \/ \E ok \in W.webhook : WebhookReply(ok)
    \/ \E i \in 1..N : DelayTimer(i)
    \/ Client(W)

Next == Step(CoreWire)

\* the whole program, over every configuration of up to NumAccounts accounts
Spec == Init /\ [][Next]_vars

\* the steps of the pipeline of account i, the replies drawn from the wire W
Pipeline(W, i) ==
    \/ \E rep \in W.basic : BasicInfoReply(i, rep)
    \/ \E rep \in W.grant : GrantReply(i, rep)
    \/ \E rep \in W.gen : GenerateCredReply(i, rep)
    \/ \E rep \in W.check : ApiReply(i, "check", rep)
    \/ \E rep \in W.claim : ApiReply(i, "claim", rep)
    \/ \E op \in Ops : RetryTimer(i, op)
    \/ DelayTimer(i)
    \/ Settle(i)

\* the steps of executeAll once it is entered
Orchestrate(W) ==
    \/ LoopIter
    \/ LoopExit
    \/ RaceWake
    \/ AllWake
    \/ \E ok \in W.webhook : WebhookReply(ok)

\* a step of a run that was entered
Progress(W) == Orchestrate(W) \/ \E i \in 1..N : Pipeline(W, i)

\* Requests are answered in the end, one way or another, timers fire, and
\* code that became runnable runs: while a run can take a step, it takes
\* one.  Nothing obliges the cron job to start a further run.
Fairness == WF_vars(Progress(LiveWire))

NextLive == Step(LiveWire)

\* the whole program under these assumptions
SpecLive == Init /\ [][NextLive]_vars /\ Fairness

\* a configuration of one account
InitClient == InitWith(EnvGroups(1, NumRoles))

\* a second passes while the event loop waits
Tick ==
    /\ Quiescent
    /\ clock < MaxClock
    /\ clock' = clock + 1
    /\ UNCHANGED <<backoff, signing, notifier, accounts, credentials, run, loopPc, loopI,
                   executing, awaited, results, batch, task>>

\* With one account the pool never fills and no rate-limit timer is started:
\* the remaining steps, the replies drawn from the full wire, and time
NextClient ==
    \/ Tick
    \/ ExecuteAll
    \/ LoopIter
    \/ LoopExit
    \/ AllWake
    \/ \E ok \in FullWire.webhook : WebhookReply(ok)
    \/ Client(FullWire)

\* the API client and executeForAccount under every kind of reply, run twice
SpecClient == InitClient /\ [][NextClient]_vars

\* Math.min
Min(a, b) == IF a <= b THEN a ELSE b

\* the base delay without the cap of MAX_RETRY_DELAY
baseDelayUncapped(attempt) == INITIAL_RETRY_DELAY * 2^attempt

\* withRetry: baseDelay = min(INITIAL_RETRY_DELAY * 2^attempt, MAX_RETRY_DELAY)
baseDelay(attempt) == Min(INITIAL_RETRY_DELAY * 2^attempt, MAX_RETRY_DELAY)

\* withRetry: delay = floor(baseDelay + baseDelay * 0.25 * (random * 2 - 1)),
\* for random = k / RandDen; the sum is taken over the denominator 4 * RandDen
backoffDelay(attempt, k) ==
    LET base == baseDelay(attempt)
        jitter == base * (2 * k - RandDen)
    IN  (base * 4 * RandDen + jitter) \div (4 * RandDen)

\* withRetry's backoff computation on its own: the attempt that failed and
\* what Math.random() will yield
InitBackoff ==
    /\ accounts = loadAccounts(EnvGroups(1, NumRoles))
    /\ credentials = [r \in Roles |-> Nil]
    /\ run = 0
    /\ loopPc = "backoff"
    /\ loopI = 1
    /\ executing = {}
    /\ awaited = {}
    /\ results = <<>>
    /\ batch = <<>>
    /\ task = [k \in 1..N |-> IdleTask]
    /\ clock = 0
    /\ signing = Nil
    /\ notifier = Uncalled
    /\ \E a \in 0..MaxAttempt, k \in 0..(RandDen - 1) :
          backoff = [attempt |-> a, random |-> k]

\* the delay is computed
ComputeDelay ==
    /\ loopPc = "backoff"
    /\ "delay" \notin DOMAIN backoff
    /\ backoff' = [attempt |-> backoff.attempt, random |-> backoff.random,
                   delay |-> backoffDelay(backoff.attempt, backoff.random)]
    /\ UNCHANGED <<accounts, credentials, run, loopPc, loopI, executing, awaited,
                   results, batch, task, clock, signing, notifier>>

NextBackoff == ComputeDelay

\* the backoff delay as a function of the attempt and of Math.random()
SpecBackoff == InitBackoff /\ [][NextBackoff]_vars

\* a fresh API client and one account, in the hands of a caller other than
\* the check-in service
InitDirect ==
    /\ accounts = loadAccounts(EnvGroups(1, NumRoles))
    /\ credentials = [r \in Roles |-> Nil]
    /\ run = 0
    /\ loopPc = "direct"
    /\ loopI = 1
    /\ executing = {}
    /\ awaited = {}
    /\ results = <<>>
    /\ batch = <<>>
    /\ task = [k \in 1..N |-> IdleTask]
    /\ clock = 0
    /\ backoff = Nil
    /\ signing = Nil
    /\ notifier = Uncalled

\* the caller calls initOAuth(account); run counts its calls
DirectInitOAuth(i) ==
    /\ loopPc = "direct"
    /\ task[i].pc \in {"idle", "called"}
    /\ run < MaxCalls
    /\ run' = run + 1
    /\ task' = [task EXCEPT ![i] = startsOAuth(i)]
    /\ UNCHANGED <<aside, notifier, accounts, credentials, loopPc, loopI, executing, awaited,
                   results, batch>>

\* the caller calls checkAttendance(account) or claimAttendance(account)
DirectCall(i, op) ==
    /\ loopPc = "direct"
    /\ task[i].pc \in {"idle", "called"}
    /\ run < MaxCalls
    /\ run' = run + 1
    /\ task' = [task EXCEPT ![i] =
                  land(startCall(IdleTask, credentials, sk_game_role(i), op))]
    /\ UNCHANGED <<aside, notifier, accounts, credentials, loopPc, loopI, executing, awaited,
                   results, batch>>

NextDirect ==
    \/ \E i \in 1..N : DirectInitOAuth(i)
    \/ \E i \in 1..N, op \in Ops : DirectCall(i, op)
    \/ Replies(FullWire)

\* the API client's methods called in any order, MaxCalls calls at most
SpecDirect == InitDirect /\ [][NextDirect]_vars

\* crypto.createHmac("sha256", key).update(s).digest("hex") and
\* crypto.createHash("md5").update(x).digest("hex"), taken to be injective:
\* each result stands for its arguments
hmacSha256(key, s) == <<"hmac-sha256", key, s>>

md5(x) == <<"md5", x>>

\* the header JSON generateSignV2 signs
headerJson(platform, timestamp, vName) ==
    "{\"platform\":\"" \o platform \o "\",\"timestamp\":\"" \o timestamp
        \o "\",\"dId\":\"\",\"vName\":\"" \o vName \o "\"}"

\* the string generateSignV2 signs: path, body, timestamp and the header JSON,
\* one after the other
canonical(path, timestamp, platform, vName, body) ==
    path \o body \o timestamp \o headerJson(platform, timestamp, vName)

\* generateSignV2 leaving the body out of the signed string
generateSignV2NoBody(path, timestamp, platform, vName, salt, body) ==
    md5(hmacSha256(salt, canonical(path, timestamp, platform, vName, "")))

generateSignV2(path, timestamp, platform, vName, salt, body) ==
    md5(hmacSha256(salt, canonical(path, timestamp, platform, vName, body)))

\* String.prototype.includes
includes(s, pattern) ==
    \E k \in 1..(Len(s) - Len(pattern) + 1) :
        SubSeq(s, k, k + Len(pattern) - 1) = pattern

v2Patterns == {"/binding", "/card/detail", "/wiki/", "/enums", "/v2/"}

\* getSignVersion with the attendance endpoints among the V2 patterns
getSignVersionAttendance(path) ==
    IF \E pattern \in v2Patterns \cup {"/attendance"} : includes(path, pattern)
    THEN "v2" ELSE "v1"

getSignVersion(path) ==
    IF \E pattern \in v2Patterns : includes(path, pattern) THEN "v2" ELSE "v1"

\* the path of the two attendance endpoints: as signed, and as requested
\* (relative to BASE_URL)
SignPath == "/web/v1/game/endfield/attendance"

RequestPath == "/game/endfield/attendance"

\* the inputs generateSignV2 is explored with: the values the API client
\* passes and, for each component, another value
SignInputs ==
    [path : {SignPath, SignPath \o "/1"}, body : {"", "/1"},
     timestamp : {"1700000000", "1700000001"}, platform : {"3", "4"},
     vName : {"1.0.0", "1.0.1"}, salt : {"salt1", "salt2"}]

\* the signature utilities on their own: two inputs of generateSignV2, and an
\* endpoint in scope whose path getSignVersion is given
InitSign ==
    /\ accounts = loadAccounts(EnvGroups(1, NumRoles))
    /\ credentials = [r \in Roles |-> Nil]
    /\ run = 0
    /\ loopPc = "sign"
    /\ loopI = 1
    /\ executing = {}
    /\ awaited = {}
    /\ results = <<>>
    /\ batch = <<>>
    /\ task = [k \in 1..N |-> IdleTask]
    /\ clock = 0
    /\ backoff = Nil
    /\ notifier = Uncalled
    /\ \E a \in SignInputs, b \in SignInputs, op \in Ops,
          path \in {SignPath, RequestPath} :
          signing = [a |-> a, b |-> b, op |-> op, path |-> path]

\* both inputs are signed
SignBoth ==
    /\ loopPc = "sign"
    /\ "signA" \notin DOMAIN signing
    /\ signing' =
          [k \in DOMAIN signing \cup {"signA", "signB"} |->
             CASE k = "signA" ->
                    generateSignV2(signing.a.path, signing.a.timestamp,
                                   signing.a.platform, signing.a.vName,
                                   signing.a.salt, signing.a.body)
               [] k = "signB" ->
                    generateSignV2(signing.b.path, signing.b.timestamp,
                                   signing.b.platform, signing.b.vName,
                                   signing.b.salt, signing.b.body)
               [] OTHER -> signing[k]]
    /\ UNCHANGED <<accounts, credentials, run, loopPc, loopI, executing, awaited,
                   results, batch, task, clock, backoff, notifier>>

\* the scheme of the endpoint is selected both ways: by getSignVersion from its
\* path, and as the call site of the operation has it
SelectScheme ==
    /\ loopPc = "sign"
    /\ "byPath" \notin DOMAIN signing
    /\ signing' =
          [k \in DOMAIN signing \cup {"byPath", "byCallSite"} |->
             CASE k = "byPath" -> getSignVersion(signing.path)
               [] k = "byCallSite" ->
                    (IF useV2Sign(signing.op) THEN "v2" ELSE "v1")
               [] OTHER -> signing[k]]
    /\ UNCHANGED <<accounts, credentials, run, loopPc, loopI, executing, awaited,
                   results, batch, task, clock, backoff, notifier>>

NextSign == SignBoth \/ SelectScheme

\* generateSignV2 and getSignVersion as functions of their inputs
SpecSign == InitSign /\ [][NextSign]_vars

(***************************************************************************)
(* Properties                                                              *)
(***************************************************************************)
\* the pipelines that run: started, their promise not yet settled
InFlight == {i \in 1..N : task[i].pc \notin {"idle", "done", "rejected"}}

\* the pipelines with a request on the wire
Outstanding ==
    {i \in 1..N : task[i].pc \in {"oauth1", "oauth2", "oauth3", "check", "claim"}}

isApi(r) == "code" \in DOMAIN r

isResult(r) == "status" \in DOMAIN r

\* the reply is a response axios resolves with
Succeeded(rep) == rep.kind = "resp" /\ rep.status >= 200 /\ rep.status <= 299

StatusOrMinusOne(rep) == IF rep.kind = "none" THEN -1 ELSE rep.status

\* the retry rule as stated: no response, a status >= 500, or status 429
RetryableByRule(rep) ==
    \/ rep.kind = "none"
    \/ rep.kind = "resp" /\ (rep.status >= 500 \/ rep.status = 429)

\* the requests a call has put on the wire so far
Attempts(t, op) == Len(t.log[op]) + (IF t.pc = op THEN 1 ELSE 0)

CallPcs == {"check", "checkWait", "claim", "claimWait"}

OAuthPcs == {"oauth1", "oauth2", "oauth3"}

OAuthStepPc == <<"oauth1", "oauth2", "oauth3">>

\* C1: at every instant at most CONCURRENT_LIMIT pipelines are in flight
\* (started, their pacing delay included, and not yet finished), hence at most
\* CONCURRENT_LIMIT accounts have an outstanding network call.
C1_AtMostLimitInFlight ==
    /\ Cardinality(InFlight) <= CONCURRENT_LIMIT
    /\ Cardinality(Outstanding) <= CONCURRENT_LIMIT
    /\ executing = InFlight

\* the pool is full of outstanding requests while an account waits to start
C1_PoolFull ==
    /\ N > CONCURRENT_LIMIT
    /\ loopPc = "race"
    /\ loopI <= N
    /\ Cardinality(Outstanding) = CONCURRENT_LIMIT

\* C2: whatever the completion order, results[i] is only ever the outcome of
\* account i, and the list handed on at the end of the run has exactly N
\* outcomes, the one at index i carrying the uid of account i.
C2_ResultsInInputOrder ==
    /\ \A i \in 1..Len(results) :
         results[i] # Nil => results[i].uid = accounts[i].sk_game_role
    /\ (run > 0 /\ loopPc \in {"notify", "finished"}) =>
         /\ Len(batch) = N
         /\ \A i \in 1..N : /\ batch[i] = results[i]
                            /\ batch[i].uid = accounts[i].sk_game_role

\* a later account has completed while the first two still run
C2_OutOfOrder ==
    /\ N >= 3
    /\ Len(results) = N
    /\ results[1] = Nil
    /\ results[2] = Nil
    /\ results[3] # Nil
    /\ results[3].uid = accounts[3].sk_game_role

\* C3: when checkAttendance returned code 0 with hasToday true, no claim
\* request is made for the account in the run and its outcome is
\* already_claimed.
C3_NoClaimWhenHasToday ==
    \A i \in 1..N :
        LET t == task[i] IN
        (/\ isApi(t.checkResponse)
         /\ t.checkResponse.code = 0
         /\ t.checkResponse.data # Nil
         /\ t.checkResponse.data.hasToday)
        => /\ Attempts(t, "claim") = 0
           /\ t.pc \notin {"claim", "claimWait"}
           /\ t.claimResponse = Nil
           /\ isResult(t.result)
           /\ t.result.status = "already_claimed"
           /\ t.result.rewards = <<>>

\* an account checked in already: the check said so on its second attempt
C3_AlreadyClaimed ==
    \E i \in 1..N :
        /\ Len(task[i].log.check) = 2
        /\ isApi(task[i].checkResponse)
        /\ task[i].checkResponse.code = 0
        /\ task[i].checkResponse.data # Nil
        /\ task[i].checkResponse.data.hasToday
        /\ isResult(task[i].result)
        /\ task[i].result.status = "already_claimed"

\* C4: a signed request of an account is on the wire, or was, only when
\* initOAuth returned true for the account in this run, and it carries the
\* credentials obtained in this run; when initOAuth returned false no signed
\* request is made with credentials an earlier run left in the cache.
C4_SignedOnlyAfterInitOAuth ==
    \A i \in 1..N :
        LET t == task[i] IN
        /\ (t.pc \in CallPcs \/ t.req # Nil
            \/ Attempts(t, "check") > 0 \/ Attempts(t, "claim") > 0)
           => t.oauthSuccess = "true"
        /\ t.req # Nil => /\ t.req.headers.cred.run = run
                          /\ t.req.headers.role = accounts[i].sk_game_role

\* in a later run initOAuth failed while the cache holds the credentials of
\* the run before, and the pipeline has ended
C4_StaleCacheUnused ==
    \E i \in 1..N :
        /\ run = 2
        /\ task[i].oauthSuccess = "false"
        /\ credentials[accounts[i].sk_game_role] # Nil
        /\ isResult(task[i].result)

\* C5: withRetry makes at most MAX_RETRIES attempts; it stops at the first
\* attempt that succeeds and returns its value; after a retryable failure it
\* returns only when MAX_RETRIES attempts were made, and then what it surfaces
\* is the error of the last one; a 400 first reply is the only attempt.
C5_RetryBudget ==
    \A i \in 1..N : \A op \in Ops :
        LET t == task[i]
            L == t.log[op]
            n == Len(L)
            r == t[Response(op)]
        IN  /\ Attempts(t, op) <= MAX_RETRIES
            /\ \A k \in 1..(n - 1) : ~Succeeded(L[k])
            /\ (n > 0 /\ Succeeded(L[n])) =>
                 r = L[n].data /\ t.pc \notin {op, Wait(op)}
            /\ (n > 0 /\ r # Nil /\ ~Succeeded(L[n]) /\ RetryableByRule(L[n])) =>
                 /\ n = MAX_RETRIES
                 /\ isApi(r)
                 /\ r.code = StatusOrMinusOne(L[n])
            /\ (n > 0 /\ L[1].kind = "resp" /\ L[1].status = 400) =>
                 n = 1 /\ t.pc \notin {op, Wait(op)}

\* two 503 replies, then a success whose value the call returned
C5_ThirdAttemptSucceeds ==
    \E i \in 1..N :
        LET L == task[i].log.claim IN
        /\ Len(L) = 3
        /\ L[1].kind = "resp" /\ L[1].status = 503
        /\ L[2].kind = "resp" /\ L[2].status = 503
        /\ Succeeded(L[3])
        /\ task[i].claimResponse = L[3].data

\* C6: a failed attempt is followed by another attempt exactly when it is
\* retryable by the rule (no response, status >= 500, status 429) and the
\* budget is not spent; a reply with any other status, and an error that is
\* no transport error, end the call.
C6_RetryableIffRule ==
    \A i \in 1..N : \A op \in Ops :
        LET t == task[i]
            L == t.log[op]
            n == Len(L)
            r == t[Response(op)]
        IN  /\ \A k \in 1..(n - 1) : RetryableByRule(L[k])
            /\ t.pc = Wait(op) => n > 0 /\ RetryableByRule(L[n])
            /\ (n > 0 /\ n < MAX_RETRIES /\ t.pc # op /\ RetryableByRule(L[n])) =>
                 t.pc = Wait(op) /\ r = Nil
            /\ (n > 0 /\ t.pc # op /\ ~RetryableByRule(L[n])) =>
                 t.pc # Wait(op) /\ r # Nil
            /\ (n = 0 /\ r # Nil) => t.pc # Wait(op)

\* a 429 reply was retried, the 404 reply that followed ended the call
C6_RetriedThenGaveUp ==
    \E i \in 1..N :
        LET L == task[i].log.check IN
        /\ Len(L) = 2
        /\ L[1].kind = "resp" /\ L[1].status = 429
        /\ L[2].kind = "resp" /\ L[2].status = 404
        /\ task[i].checkResponse # Nil

\* C7: when initOAuth returned false the account's outcome is an error with
\* no rewards, and neither checkAttendance nor claimAttendance is called.
C7_OAuthFailureEndsPipeline ==
    \A i \in 1..N :
        LET t == task[i] IN
        t.oauthSuccess = "false"
        => /\ t.pc \notin CallPcs
           /\ t.req = Nil
           /\ Attempts(t, "check") = 0 /\ Attempts(t, "claim") = 0
           /\ t.checkResponse = Nil /\ t.claimResponse = Nil
           /\ isResult(t.result)
           /\ t.result.status = "error"
           /\ t.result.rewards = <<>>

\* initOAuth returned false in the first run and the pipeline ended with the
\* error outcome
C7_OAuthFailed ==
    \E i \in 1..N :
        /\ run = 1
        /\ task[i].oauthSuccess = "false"
        /\ isResult(task[i].result)
        /\ task[i].result.error = "Failed to initialize OAuth credentials"

\* C8: no pipeline ever rejects and the run never fails, so at the end of a
\* run every account has its own outcome whatever happened to the others; an
\* exception in executeForAccount becomes the account's error outcome, with
\* the exception's message.
C8_FailuresAreIsolated ==
    /\ loopPc # "failed"
    /\ \A i \in 1..N :
         /\ task[i].pc # "rejected"
         /\ task[i].result # Thrown
         /\ task[i].checkResponse = NullBody =>
              task[i].result = CheckInResult(accounts[i].sk_game_role, "error",
                                             <<>>, "Cannot read properties of null")
    /\ (run > 0 /\ loopPc \in {"notify", "finished"}) =>
         \A i \in 1..N : results[i] # Nil /\ isResult(results[i])

\* the run ended: an account's pipeline threw, the next one claimed its reward
C8_OthersUnaffected ==
    \E i \in 1..N : \E j \in 1..N :
        /\ i < j
        /\ loopPc = "finished"
        /\ results[i].status = "error"
        /\ results[i].error = "Cannot read properties of null"
        /\ results[j].status = "claimed"

\* C9: when the last reply to checkAttendance / claimAttendance was a failure
\* the call has not thrown but returned an ApiResponse whose code is the
\* status of that reply, or -1 when there was no response; never code 0.
C9_FailureIsNormalised ==
    \A i \in 1..N : \A op \in Ops :
        LET t == task[i]
            L == t.log[op]
            n == Len(L)
            r == t[Response(op)]
        IN  /\ t.result # Thrown
            /\ (n > 0 /\ ~Succeeded(L[n]) /\ t.pc \notin {op, Wait(op)}) =>
                 /\ isApi(r)
                 /\ r.code = StatusOrMinusOne(L[n])
                 /\ r.code # 0
                 /\ isResult(t.result)
                 /\ t.result.status = "error"

\* three attempts without a response: the call returned code -1
C9_NoResponseMinusOne ==
    \E i \in 1..N :
        LET L == task[i].log.check IN
        /\ Len(L) = MAX_RETRIES
        /\ L[MAX_RETRIES].kind = "none"
        /\ isApi(task[i].checkResponse)
        /\ task[i].checkResponse.code = -1

\* C10: initOAuth always returns: with true, the credentials of this flow
\* stored under the account's sk_game_role and the rest of the cache as it
\* was; with false, the cache exactly as it was.  Nothing else changes the
\* cache.
C10_InitOAuthReturns ==
    [][/\ \A i \in 1..N :
            (task[i].pc \in OAuthPcs /\ task'[i].pc \notin OAuthPcs) =>
               \/ /\ task'[i].oauthSuccess = "true"
                  /\ credentials'[accounts[i].sk_game_role].cred
                       = [by |-> i, run |-> run]
                  /\ \A k \in Roles \ {accounts[i].sk_game_role} :
                       credentials'[k] = credentials[k]
               \/ /\ task'[i].oauthSuccess = "false"
                  /\ credentials' = credentials
       /\ credentials' # credentials =>
            \E i \in 1..N : task[i].pc = "oauth3" /\ task'[i].oauthSuccess = "true"
      ]_vars

\* initOAuth returned false in the second run and the entry the first run
\* stored under the key is still there
C10_EntryKept ==
    \E i \in 1..N :
        /\ run = 2
        /\ task[i].oauthSuccess = "false"
        /\ credentials[accounts[i].sk_game_role] # Nil
        /\ credentials[accounts[i].sk_game_role].cred = [by |-> i, run |-> 1]

\* the reply lets the flow go on past the given step, as the claims state it
StepPassed(e) ==
    /\ e.rep.kind = "json"
    /\ CASE e.step = 1 -> e.rep.status = 0
         [] e.step = 2 -> e.rep.status = 0 /\ e.rep.code # Undefined
         [] OTHER -> e.rep.code = 0 /\ e.rep.cred

\* the requests performOAuthFlow has sent so far, by step
OAuthSent(t) ==
    [k \in 1..3 |->
        Cardinality({j \in 1..Len(t.log.oauth) : t.log.oauth[j].step = k})
        + (IF t.pc = OAuthStepPc[k] THEN 1 ELSE 0)]

\* C11: performOAuthFlow sends the basic-info, grant and credential requests
\* in this order, each at most once; the request of a step is sent only after
\* every earlier step was answered well (status 0; status 0 with a code), and
\* after a step failed no further request is sent.
C11_StepsInOrder ==
    \A i \in 1..N :
        LET t == task[i]
            L == t.log.oauth
            n == Len(L)
        IN  /\ n <= 3
            /\ \A k \in 1..n : L[k].step = k
            /\ \A k \in 1..3 : OAuthSent(t)[k] <= 1
            /\ \A k \in 1..(n - 1) : StepPassed(L[k])
            /\ \A k \in 1..3 : t.pc = OAuthStepPc[k] =>
                 n = k - 1 /\ \A j \in 1..n : StepPassed(L[j])
            /\ (n > 0 /\ ~StepPassed(L[n])) =>
                 /\ t.pc \notin OAuthPcs
                 /\ t.oauthSuccess = "false"
                 /\ \A k \in (n + 1)..3 : OAuthSent(t)[k] = 0
            /\ t.oauthSuccess = "true" => n = 3 /\ StepPassed(L[3])

\* the grant reply had status 0 but no code: the flow ended after two requests
C11_StoppedAtGrant ==
    \E i \in 1..N :
        LET L == task[i].log.oauth IN
        /\ Len(L) = 2
        /\ L[2].rep.kind = "json"
        /\ L[2].rep.status = 0
        /\ L[2].rep.code = Undefined
        /\ task[i].oauthSuccess = "false"
        /\ isResult(task[i].result)

\* C12: step 3 fails unless its reply has code 0 and both a cred and a token,
\* so every cached entry has a defined cred and a defined salt.
C12_CredAndSaltDefined ==
    /\ \A i \in 1..N :
         LET L == task[i].log.oauth IN
         (Len(L) = 3 /\ L[3].rep.kind = "json"
          /\ ~(L[3].rep.code = 0 /\ L[3].rep.cred /\ L[3].rep.token))
         => task[i].oauthSuccess = "false"
    /\ \A k \in Roles :
         credentials[k] # Nil =>
            credentials[k].cred # Nil /\ credentials[k].salt # Nil

\* C13 as stated: a call of checkAttendance / claimAttendance made while no
\* credentials are cached for the account ends without an ApiResponse (the
\* missing-credentials error is raised to the caller) and without a request.
C13_RaisesWithoutCredentials ==
    \A i \in 1..N : \A op \in Ops :
        LET t == task[i] IN
        credentials[accounts[i].sk_game_role] = Nil
        => /\ t.pc \notin {op, Wait(op)}
           /\ Attempts(t, op) = 0
           /\ ~isApi(t[Response(op)])

\* C13, amended: such a call sends no request and does not raise: it returns
\* an ApiResponse with code -1 and the message of the missing-credentials
\* error.
C13_ReturnsMinusOneWithoutCredentials ==
    \A i \in 1..N : \A op \in Ops :
        LET t == task[i] IN
        credentials[accounts[i].sk_game_role] = Nil
        => /\ t.pc \notin {op, Wait(op)}
           /\ t.req = Nil
           /\ Attempts(t, op) = 0
           /\ t[Response(op)] # Nil =>
                /\ t.pc = "called"
                /\ t[Response(op)] = ApiResponse(-1, "No credentials available", Nil)

\* claimAttendance was called before any initOAuth and has returned
C13_CalledWithoutCredentials ==
    \E i \in 1..N :
        /\ loopPc = "direct"
        /\ credentials[accounts[i].sk_game_role] = Nil
        /\ task[i].pc = "called"
        /\ task[i].claimResponse # Nil

\* C14: every signed request sent for an account carries the cred, and is
\* signed with the cred or salt, obtained by that account's own initOAuth in
\* this run, whatever the other pipelines do and also when accounts share an
\* sk_game_role.
C14_OwnCredentialsOnly ==
    \A i \in 1..N :
        task[i].req # Nil =>
            /\ task[i].req.headers.cred = [by |-> i, run |-> run]
            /\ task[i].req.headers.sign.key = [by |-> i, run |-> run]

\* C15: when processConcurrently has returned and the results are handed to
\* the notifier, every pipeline has completed, pacing delay included: none is
\* in flight, the pending set is empty and every result slot is filled.
C15_DrainedBeforeNotify ==
    (run > 0 /\ loopPc \in {"notify", "finished"}) =>
        /\ InFlight = {}
        /\ executing = {}
        /\ \A i \in 1..N : task[i].pc = "done" /\ results[i] # Nil
        /\ batch = results

\* the results of more accounts than the pool holds are with the notifier
C15_Notifying ==
    /\ loopPc = "notify"
    /\ N > CONCURRENT_LIMIT
    /\ Len(batch) = N
    /\ \A i \in 1..N : task[i].pc = "done"

\* C16: every account but the one at the last input index enters the pacing
\* delay when its outcome is produced, holds its slot of the pool during the
\* delay and completes only through it; the account at the last index
\* completes without a delay, in whatever order the pipelines complete.
C16_PacingDelay ==
    [][\A i \in 1..N :
         /\ (task[i].result = Nil /\ task'[i].result # Nil) =>
               task'[i].pc = (IF i < N THEN "delay" ELSE "settle")
         /\ task'[i].pc = "delay" =>
               i < N /\ i \in executing' /\ task'[i].result # Nil
         /\ (task[i].pc # "settle" /\ task'[i].pc = "settle" /\ i < N) =>
               task[i].pc = "delay"
         /\ (task[i].pc = "delay" /\ task'[i].pc # "delay") =>
               task'[i].pc = "settle" /\ task'[i].result = task[i].result
      ]_vars

\* the last account is done while the first, whose outcome is there, still
\* holds its slot in the delay
C16_LastDoneFirstDelayed ==
    /\ N >= 2
    /\ task[1].pc = "delay"
    /\ 1 \in executing
    /\ task[N].pc = "done"
    /\ results[N] # Nil

\* C17: withRetry waits only between a retryable failed attempt and the next
\* attempt: each wait follows a retryable failure with attempts left, a
\* non-retryable failure and the failure of the last attempt end the call
\* with no wait, so a call waits at most MAX_RETRIES - 1 times.
C17_WaitsOnlyBetweenAttempts ==
    \A i \in 1..N : \A op \in Ops :
        LET t == task[i]
            L == t.log[op]
            n == Len(L)
        IN  /\ t.waits[op] <= MAX_RETRIES - 1
            /\ t.pc = Wait(op) =>
                 /\ n >= 1 /\ n < MAX_RETRIES
                 /\ ~Succeeded(L[n]) /\ RetryableByRule(L[n])
                 /\ t.waits[op] = n
            /\ t.pc = op => t.waits[op] = n
            /\ (t.pc \notin {op, Wait(op)} /\ n > 0) => t.waits[op] = n - 1
            /\ n = 0 => t.waits[op] = 0

\* the third attempt failed too: the call returned after two waits
C17_TwoWaits ==
    \E i \in 1..N :
        LET L == task[i].log.check IN
        /\ Len(L) = MAX_RETRIES
        /\ ~Succeeded(L[MAX_RETRIES])
        /\ RetryableByRule(L[MAX_RETRIES])
        /\ task[i].checkResponse # Nil
        /\ task[i].waits.check = MAX_RETRIES - 1

\* the base of the backoff after failed attempt n: min(1000 * 2^n, 10000)
BaseOfAttempt(n) ==
    CASE n = 0 -> 1000
      [] n = 1 -> 2000
      [] n = 2 -> 4000
      [] n = 3 -> 8000
      [] OTHER -> 10000

\* C18: the delay computed after failed attempt n is a whole number of
\* milliseconds within [0.75 * base, 1.25 * base], base = min(1000 * 2^n,
\* 10000): within [750, 1250], [1500, 2500], [3000, 5000] for n = 0, 1, 2, and
\* never above 1.25 * 10000.
C18_DelayInBand ==
    "delay" \in DOMAIN backoff =>
        LET n == backoff.attempt
            d == backoff.delay
        IN  /\ d \in Int
            /\ 4 * d >= 3 * BaseOfAttempt(n)
            /\ 4 * d <= 5 * BaseOfAttempt(n)
            /\ n = 0 => d >= 750 /\ d <= 1250
            /\ n = 1 => d >= 1500 /\ d <= 2500
            /\ n = 2 => d >= 3000 /\ d <= 5000
            /\ d <= 12500

\* a delay computed for an attempt whose base is capped, in the upper half of
\* the band
C18_CappedDelay ==
    /\ "delay" \in DOMAIN backoff
    /\ backoff.attempt = 4
    /\ backoff.delay > 10000

\* C19: every signed request that is sent, first attempt or retry, has a
\* timestamp header equal to the timestamp its sign was computed over, and
\* that value is the clock as read for this very attempt.
C19_OneTimestampPerAttempt ==
    [][\A i \in 1..N :
         /\ task'[i].req # Nil =>
               task'[i].req.headers.timestamp = task'[i].req.headers.sign.timestamp
         /\ (task'[i].req # Nil
             /\ (task[i].req = Nil \/ task[i].req.op # task'[i].req.op)) =>
               /\ task'[i].req.headers.timestamp = clock'
               /\ task'[i].req.headers.sign.timestamp = clock'
      ]_vars

\* the third attempt of the claim request is on the wire, sent two seconds
\* after the run began
C19_RetrySentLater ==
    \E i \in 1..N :
        /\ task[i].pc = "claim"
        /\ Len(task[i].log.claim) = 2
        /\ task[i].req.headers.timestamp = 2
        /\ task[i].req.headers.sign.timestamp = 2

\* the response is an ApiResponse with code 0
CodeZero(r) == isApi(r) /\ r.code = 0

HasToday(r) == CodeZero(r) /\ r.data # Nil /\ r.data.hasToday

\* the entries of the claim response's resourceInfoMap
MapEntries(r) ==
    IF r.data # Nil /\ "resourceInfoMap" \in DOMAIN r.data
    THEN r.data.resourceInfoMap ELSE <<>>

\* the status the claims assign to a pipeline that has ended
StatusByRule(t) ==
    IF t.oauthSuccess # "true" THEN "error"
    ELSE IF ~CodeZero(t.checkResponse) THEN "error"
    ELSE IF HasToday(t.checkResponse) THEN "already_claimed"
    ELSE IF ~CodeZero(t.claimResponse) THEN "error"
    ELSE "claimed"

\* C20: the status of an outcome is error when initOAuth failed, a call
\* returned a code other than 0 or an exception was thrown (a null body),
\* already_claimed when check returned code 0 with hasToday true, claimed when
\* check returned code 0 without it and claim returned code 0; a claimed
\* outcome has one {name, count, icon} reward per entry of resourceInfoMap, in
\* its order, every other outcome has none.
C20_StatusFollowsResponses ==
    \A i \in 1..N :
        LET t == task[i] IN
        isResult(t.result) =>
            /\ t.result.uid = accounts[i].sk_game_role
            /\ t.result.status = StatusByRule(t)
            /\ t.result.status # "claimed" => t.result.rewards = <<>>
            /\ t.result.status = "claimed" =>
                 LET m == MapEntries(t.claimResponse) IN
                 /\ Len(t.result.rewards) = Len(m)
                 /\ \A k \in 1..Len(m) :
                      t.result.rewards[k] = [name |-> m[k].name,
                                             count |-> m[k].count,
                                             icon |-> m[k].icon]

\* check said hasToday false, claim returned two resources: the outcome is
\* claimed with the two rewards, the 100 GOLD among them
C20_ClaimedTwoRewards ==
    \E i \in 1..N :
        /\ isResult(task[i].result)
        /\ task[i].result.status = "claimed"
        /\ CodeZero(task[i].checkResponse)
        /\ ~HasToday(task[i].checkResponse)
        /\ Len(task[i].result.rewards) = 2
        /\ task[i].result.rewards[2] = [name |-> "GOLD", count |-> 100,
                                        icon |-> "gold.png"]

\* step 2 of the bootstrap was answered with a status other than 0
Step2NonZero(t) ==
    /\ Len(t.log.oauth) = 2
    /\ t.log.oauth[2].rep.kind = "json"
    /\ t.log.oauth[2].rep.status # 0

\* the messages that name step 2 as the one that failed
Step2Messages ==
    {oauthStepError(2, rep) : rep \in {r \in FullWire.grant : r.kind = "json"}}

\* C21 as stated: when step 2 of the bootstrap is answered with a non-zero
\* status, the account's outcome is error and its error message references
\* step 2.
C21_ErrorReferencesStep2 ==
    \A i \in 1..N :
        LET t == task[i] IN
        Step2NonZero(t) =>
            /\ isResult(t.result)
            /\ t.result.status = "error"
            /\ t.result.error \in Step2Messages

\* C21, amended: the outcome is error with no rewards and the fixed message
\* "Failed to initialize OAuth credentials"; the message that references step
\* 2 is the one initOAuth writes to console.error, and no check or claim
\* request is sent.
C21_ErrorIsGenericStep2Logged ==
    \A i \in 1..N :
        LET t == task[i] IN
        Step2NonZero(t) =>
            /\ isResult(t.result)
            /\ t.result = CheckInResult(accounts[i].sk_game_role, "error", <<>>,
                                        "Failed to initialize OAuth credentials")
            /\ t.result.error \notin Step2Messages
            /\ t.logged \in Step2Messages
            /\ t.oauthSuccess = "false"
            /\ Attempts(t, "check") = 0 /\ Attempts(t, "claim") = 0

\* the grant request was answered with status 1 and the pipeline has ended
C21_Step2Refused ==
    \E i \in 1..N :
        /\ Step2NonZero(task[i])
        /\ task[i].log.oauth[2].rep.status = 1
        /\ task[i].logged = "OAuth Step 2 failed: status 1"
        /\ isResult(task[i].result)

SignComponents == {"path", "timestamp", "platform", "vName", "salt", "body"}

\* the components in which the two inputs differ
Differing == {c \in SignComponents : signing.a[c] # signing.b[c]}

Signed == signing # Nil /\ "signA" \in DOMAIN signing

Selected == signing # Nil /\ "byPath" \in DOMAIN signing

\* C23 as stated: for the check GET and the claim POST, both on the
\* attendance path, the scheme getSignVersion selects from the path is the
\* scheme hard-coded at the call site (V1 for check, V2 for claim).
C23_PathRuleMatchesCallSite ==
    Selected => signing.byPath = signing.byCallSite

\* C23, amended: getSignVersion selects V1 for the attendance path, whichever
\* the operation; this is the call site's choice for the check GET and not
\* for the claim POST, which the call site signs with V2.
C23_PathRuleGivesV1 ==
    Selected =>
        /\ signing.byPath = "v1"
        /\ signing.byCallSite = (IF signing.op = "claim" THEN "v2" ELSE "v1")
        /\ (signing.byPath = signing.byCallSite) <=> signing.op = "check"

\* the scheme of the claim POST was selected both ways, from the signed path
C23_ClaimSelected ==
    /\ Selected
    /\ signing.op = "claim"
    /\ signing.path = SignPath
    /\ signing.byCallSite = "v2"

\* every account has its outcome in its slot of results
AllOutcomesExist ==
    Len(results) = N /\ \A i \in 1..N : results[i] # Nil /\ isResult(results[i])

\* C24: sendBatchResults is called exactly once per executeAll, when every
\* outcome exists and with these outcomes; executeAll ends only through it and
\* ends normally whether the webhook call succeeded or failed; while the
\* notifier runs and when it returns the outcomes are as they were.
C24_NotifierDoesNotAffectRun ==
    [][/\ notifier'.calls <= 1
       /\ notifier'.calls # notifier.calls =>
            \/ notifier'.calls = 0 /\ run' = run + 1
            \/ /\ notifier'.calls = 1 /\ run' = run
               /\ loopPc = "all" /\ loopPc' = "notify"
               /\ AllOutcomesExist
               /\ batch' = results
       /\ loopPc = "notify" =>
            /\ loopPc' = "finished"
            /\ run' = run
            /\ results' = results
            /\ batch' = batch
            /\ notifier'.calls = 1
       /\ (loopPc' = "finished" /\ loopPc # "finished") =>
            loopPc = "notify" /\ notifier.calls = 1
       /\ loopPc' # "failed"
       /\ notifier'.failed => loopPc' = "finished" /\ batch' = results'
      ]_vars

\* the webhook call failed: the run has ended normally with the outcomes of
\* more accounts than the pool holds
C24_WebhookFailedRunFinished ==
    /\ loopPc = "finished"
    /\ notifier = [calls |-> 1, failed |-> TRUE]
    /\ N > CONCURRENT_LIMIT
    /\ AllOutcomesExist
    /\ batch = results

\* C25: within a run at most MAX_RETRIES check GETs and at most MAX_RETRIES
\* claim POSTs are sent for an account; a claim POST that is followed by
\* another, or by the wait for another, failed with a retryable error (no
\* response, status >= 500 or 429); once a claim POST was answered with a 2xx
\* status it is the last one and no further one is sent or scheduled.
C25_ClaimPostsBounded ==
    \A i \in 1..N :
        LET t == task[i]
            L == t.log.claim
            n == Len(L)
        IN  /\ Attempts(t, "check") <= MAX_RETRIES
            /\ Attempts(t, "claim") <= MAX_RETRIES
            /\ \A k \in 1..n :
                 (k < n \/ t.pc \in {"claim", "claimWait"}) =>
                    ~Succeeded(L[k]) /\ RetryableByRule(L[k])
            /\ \A k \in 1..n :
                 Succeeded(L[k]) =>
                    /\ k = n
                    /\ t.pc \notin {"claim", "claimWait"}
                    /\ t.req = Nil
                    /\ t.claimResponse = L[k].data

\* the budget was used twice over: the third GET succeeded, and the third POST
\* got a 2xx answer after two retryable failures of different kinds
C25_ThreeGetsThreePosts ==
    \E i \in 1..N :
        LET t == task[i] IN
        /\ Len(t.log.check) = MAX_RETRIES
        /\ Len(t.log.claim) = MAX_RETRIES
        /\ t.log.claim[1].kind = "none"
        /\ t.log.claim[2].kind = "resp" /\ t.log.claim[2].status = 429
        /\ Succeeded(t.log.claim[3])
        /\ isResult(t.result)

\* C26: whatever the account list, a run that was entered ends, with an
\* outcome for every account, provided every request is answered and every
\* timer fires; on the way no call makes more than MAX_RETRIES attempts, and
\* whenever the pool loop waits, it waits on a set that holds a promise not
\* yet settled when the wait began: never on an empty or drained set.
C26_RunTerminates ==
    /\ [](loopPc \in {"race", "all"} =>
            /\ awaited = executing \cup {p \in awaited : settled(p)}
            /\ loopPc = "race" => awaited # {})
    /\ [](\A i \in 1..N : \A op \in Ops : Attempts(task[i], op) <= MAX_RETRIES)
    /\ (loopPc = "loop") ~> (loopPc = "finished" /\ AllOutcomesExist)

\* a run has ended in which an account, among more than the pool holds, had
\* used up its attempts
C26_EndedAfterRetries ==
    /\ loopPc = "finished"
    /\ N > CONCURRENT_LIMIT
    /\ AllOutcomesExist
    /\ \E i \in 1..N : results[i].error = "Network Error"

\* C27: every account record handed to executeAll has a defined
\* account_token and a defined sk_game_role, and the token initOAuth hands to
\* the bootstrap handshake is the value configured as ACCOUNT_N_CRED.
C27_TokenIsConfiguredCred ==
    run > 0 =>
        \A i \in 1..N :
            /\ Get(accounts[i], "account_token") # Undefined
            /\ Get(accounts[i], "sk_game_role") # Undefined
            /\ task[i].pc \in OAuthPcs => task[i].token = TokenNames[i]

====
